---- MODULE Spec2Model ----
(***************************************************************************)
(* A model of critirs: a poisonable mutual-exclusion lock over a Windows   *)
(* CRITICAL_SECTION, in its two allocation disciplines: CriticalSection    *)
(* (Arc-shared, src/src/crit.rs) and CriticalStatic (static storage, lazy  *)
(* once-initialisation, src/src/crit_static.rs), with the guard            *)
(* EnteredCritical (src/src/common.rs).                                    *)
(*                                                                         *)
(* One lock object is under test; Init chooses whether it is a Shared Lock *)
(* or a Static Lock.  Threads are preemptive: every atomic load/store,     *)
(* compare-and-swap and OS call is one step of one thread.                 *)
(***************************************************************************)
EXTENDS Integers, FiniteSets, TLC

\* ---------------------------------------------------------------- bounds
NThreads == 2       \* threads using the lock
MaxDepth == 2       \* guards one thread may hold at once (recursion depth)
MaxHandles == 2     \* K: owning handles of the Shared Lock
MaxCalls == 3       \* API calls begun in one run, all threads together
MaxIncr == 2        \* protected increments of X in one run
MaxSpin == 1        \* spin counts passed by callers are 1..MaxSpin
MaxNews == 3        \* CriticalSection::new / with_spin_count calls in one run
MaxAddrs == 2       \* heap addresses the allocator may hand out

Threads == 1..NThreads
SpinValues == 1..MaxSpin
Addrs == 1..MaxAddrs
Slots == {"c1", "c2", "c3"}     \* the handle variables of tests::clone_eq

\* ------------------------------------------------------- program constants
UNINITIALIZED == 0
INITIALIZING == 1
INITIALIZED == 2
POISONED == 3
NoThread == 0       \* CRIT_ZEROED.OwningThread: nobody owns the lock

VARIABLES
    kind,            \* "Shared" (CriticalSection) or "Static" (CriticalStatic)
    init_spin_count, \* CriticalStatic.init_spin_count: None or Some(n)
    init,            \* CriticalStatic.init, the atomic state word
    osState,         \* the CRITICAL_SECTION: "zeroed", "live" or "deleted"
    OwningThread,    \* CRITICAL_SECTION.OwningThread
    RecursionCount,  \* CRITICAL_SECTION.RecursionCount
    SpinCount,       \* CRITICAL_SECTION.SpinCount
    poison,          \* PoisonableCriticalSection.poison
    strong,          \* Arc strong count of CriticalSection.inner
    refExists,       \* a CriticalStaticRef<Init> has been handed out
    osInitCalls,     \* history: OS init calls made on the object
    osDeleteCalls,   \* history: OS delete calls made on the object
    pc,              \* per thread: position in the code
    op,              \* per thread: the API function in progress
    via,             \* per thread: the receiver type of that function
    arg,             \* per thread: the spin_count argument in progress
    status,          \* per thread: "run", "exit" (returning) or "panic"
    guards,          \* per thread: live EnteredCritical values it owns
    handles,         \* per thread: CriticalSection handles it owns
    X,               \* the counter the lock protects (tests' static mut X)
    x,               \* per thread: the local `x` of the tests
    incs,            \* history: increments of X completed
    calls,           \* API calls begun so far
    uninit,          \* per thread: CriticalStaticRef<Uninit> values it owns
    inner,           \* per handle variable: CriticalSection.inner, the address
                     \* of its Arc allocation (NoAddr: the variable is empty)
    origin,          \* history, per handle variable: which new() it derives from
    heap,            \* per address: the PoisonableCriticalSection stored there
    serial           \* history: new() calls made so far

eqVars == <<inner, origin, heap, serial>>
osVars == <<osState, OwningThread, RecursionCount, SpinCount, osInitCalls, osDeleteCalls>>
lockVars == <<kind, init_spin_count, uninit, eqVars, init, poison, strong, refExists>>
callVars == <<op, via, arg>>
testVars == <<X, x, incs>>
vars == <<kind, init_spin_count, uninit, eqVars, init, osState, OwningThread, RecursionCount,
          SpinCount, poison, strong, refExists, osInitCalls, osDeleteCalls,
          pc, op, via, arg, status, guards, handles, X, x, incs, calls>>

\* Option<u32>: None is the empty set, Some(n) the set of n alone.
None == {}
Some(n) == {n}
Unwrap(o) == CHOOSE n \in o : TRUE

NoCall == "-"
NoAddr == 0         \* no allocation

\* ------------------------------------------------- the OS lock service
\* EnterCriticalSection returns only once the caller owns the object; the
\* object is recursive.
cs_can_enter(t) == OwningThread \in {NoThread, t}

enter_cs(t) ==
    /\ cs_can_enter(t)
    /\ OwningThread' = t
    /\ RecursionCount' = RecursionCount + 1

\* TryEnterCriticalSection: non-zero iff the caller owns the object on return.
try_enter_cs(t) == IF cs_can_enter(t) THEN 1 ELSE 0

\* LeaveCriticalSection: releases one level of recursive ownership.
leave_cs(t) ==
    /\ RecursionCount' = RecursionCount - 1
    /\ OwningThread' = IF RecursionCount - 1 = 0 THEN NoThread ELSE OwningThread

\* InitializeCriticalSection[AndSpinCount] when it succeeds.  On an object
\* that is initialised already the behaviour is undefined: the owner fields
\* are reset, or survive.
init_cs(spin) ==
    /\ osState' = "live"
    /\ IF osState = "live"
       THEN \/ OwningThread' = NoThread /\ RecursionCount' = 0
            \/ UNCHANGED <<OwningThread, RecursionCount>>
       ELSE OwningThread' = NoThread /\ RecursionCount' = 0
    /\ SpinCount' = spin
    /\ osInitCalls' = osInitCalls + 1

\* ... and when it fails (the wrapper panics): the object is left unusable.
init_cs_fails ==
    /\ osInitCalls' = osInitCalls + 1
    /\ UNCHANGED <<osState, OwningThread, RecursionCount, SpinCount>>

delete_cs ==
    /\ osState' = "deleted"
    /\ osDeleteCalls' = osDeleteCalls + 1

\* ----------------------------------------------------------------- Init
\* CriticalSection::new() / with_spin_count(n): a fresh Arc, OS init done,
\* one handle, owned by thread 1.
InitShared ==
    /\ kind = "Shared"
    /\ init_spin_count = None
    /\ init = UNINITIALIZED
    /\ osState = "live"
    /\ SpinCount \in {0} \cup SpinValues
    /\ osInitCalls = 1
    /\ strong = 1
    /\ handles = [t \in Threads |-> IF t = 1 THEN 1 ELSE 0]

\* CriticalStatic::new() / with_spin_count(n): const, nothing initialised.
InitStatic ==
    /\ kind = "Static"
    /\ init_spin_count \in {None} \cup {Some(n) : n \in SpinValues}
    /\ init = UNINITIALIZED
    /\ osState = "zeroed"
    /\ SpinCount = 0
    /\ osInitCalls = 0
    /\ strong = 0
    /\ handles = [t \in Threads |-> 0]

Init ==
    /\ InitShared \/ InitStatic
    /\ OwningThread = NoThread
    /\ RecursionCount = 0
    /\ poison = FALSE
    /\ refExists = FALSE
    /\ osDeleteCalls = 0
    /\ pc = [t \in Threads |-> "idle"]
    /\ op = [t \in Threads |-> NoCall]
    /\ via = [t \in Threads |-> NoCall]
    /\ arg = [t \in Threads |-> 0]
    /\ status = [t \in Threads |-> "run"]
    /\ guards = [t \in Threads |-> 0]
    /\ X = 0
    /\ x = [t \in Threads |-> 0]
    /\ incs = 0
    /\ calls = 0
    /\ uninit = [t \in Threads |-> 0]
    /\ inner = [c \in Slots |-> NoAddr]
    /\ origin = [c \in Slots |-> 0]
    /\ heap = [a \in Addrs |-> [SpinCount |-> 0, poison |-> FALSE]]
    /\ serial = 0

\* ------------------------------------------------------- calls and returns
\* Thread t is running user code and may begin one more API call.
CanCall(t) ==
    /\ pc[t] = "idle"
    /\ status[t] = "run"
    /\ calls < MaxCalls

\* The call of thread t goes on at pc `next`, inside function o of receiver v.
Inside(t, o, v, n, next) ==
    /\ pc' = [pc EXCEPT ![t] = next]
    /\ op' = [op EXCEPT ![t] = o]
    /\ via' = [via EXCEPT ![t] = v]
    /\ arg' = [arg EXCEPT ![t] = n]

\* The call of thread t returns to user code.
Return(t) ==
    /\ pc' = [pc EXCEPT ![t] = "idle"]
    /\ op' = [op EXCEPT ![t] = NoCall]
    /\ via' = [via EXCEPT ![t] = NoCall]
    /\ arg' = [arg EXCEPT ![t] = 0]

\* Where a thread of status st goes on once it holds g guards and h handles:
\* user code, or the next drop of its scope exit or unwinding (guards first,
\* then the handles they borrow), or its end.
Continue(st, g, h) ==
    IF st = "run" THEN "idle"
    ELSE IF g > 0 THEN (IF st = "panic" THEN "drop" ELSE "leave")
    ELSE IF h > 0 THEN "hdrop"
    ELSE "done"

\* A thread that panics: its call, if any, is abandoned and it unwinds.
Panics(t, first) ==
    /\ status' = [status EXCEPT ![t] = "panic"]
    /\ pc' = [pc EXCEPT ![t] = first]
    /\ op' = [op EXCEPT ![t] = NoCall]
    /\ via' = [via EXCEPT ![t] = NoCall]
    /\ arg' = [arg EXCEPT ![t] = 0]

\* --------------------------------------- EnteredCritical (src/src/common.rs)
\* EnteredCritical::new after a successful acquire: one more live guard.
EnteredCritical_new(t) == guards' = [guards EXCEPT ![t] = @ + 1]

\* Mutant of EnteredCritical_drop_poison: the poison write is left out.
EnteredCritical_drop_poison_skipped(t) ==
    /\ pc[t] = "drop"
    /\ pc' = [pc EXCEPT ![t] = "leave"]
    /\ UNCHANGED <<osVars, lockVars, callVars, testVars, status, guards, handles, calls>>

\* Drop for EnteredCritical, lines 69-72: the thread is panicking, so poison
\* is written true.  (A thread that is not panicking skips this.)
EnteredCritical_drop_poison(t) ==
    /\ pc[t] = "drop"
    /\ poison' = (status[t] = "panic" \/ poison)
    /\ pc' = [pc EXCEPT ![t] = "leave"]
    /\ UNCHANGED <<osVars, kind, init_spin_count, uninit, eqVars, init, strong, refExists,
                   callVars, testVars, status, guards, handles, calls>>

\* Mutant of EnteredCritical_drop: a panicking thread returns from drop after
\* the poison write, without leave_cs.
EnteredCritical_drop_poison_only(t) ==
    /\ IF status[t] = "panic"
       THEN UNCHANGED <<OwningThread, RecursionCount>>
       ELSE leave_cs(t)
    /\ guards' = [guards EXCEPT ![t] = @ - 1]
    /\ pc' = [pc EXCEPT ![t] = Continue(status[t], guards[t] - 1, handles[t])]
    /\ UNCHANGED <<osState, SpinCount, osInitCalls, osDeleteCalls, lockVars,
                   callVars, testVars, status, handles, calls>>

\* Drop for EnteredCritical, lines 73-75: leave_cs, and the guard is gone.
EnteredCritical_drop(t) ==
    /\ leave_cs(t)
    /\ guards' = [guards EXCEPT ![t] = @ - 1]
    /\ pc' = [pc EXCEPT ![t] = Continue(status[t], guards[t] - 1, handles[t])]
    /\ UNCHANGED <<osState, SpinCount, osInitCalls, osDeleteCalls, lockVars,
                   callVars, testVars, status, handles, calls>>

\* A guard dropped by scope exit or unwinding.
EnteredCritical_drop_leave(t) ==
    /\ pc[t] = "leave"
    /\ EnteredCritical_drop(t)

\* Mutant of EnteredCritical_leave: leave() calls leave_cs itself and the drop
\* of `self` then calls it again.
EnteredCritical_leave_twice(t) ==
    /\ pc[t] = "idle"
    /\ status[t] = "run"
    /\ guards[t] >= 1
    /\ RecursionCount' = RecursionCount - 2
    /\ OwningThread' = IF RecursionCount - 2 <= 0 THEN NoThread ELSE OwningThread
    /\ guards' = [guards EXCEPT ![t] = @ - 1]
    /\ UNCHANGED <<osState, SpinCount, osInitCalls, osDeleteCalls, lockVars,
                   pc, callVars, testVars, status, handles, calls>>

\* EnteredCritical::leave(self): drop(self), in a thread that is not panicking.
EnteredCritical_leave(t) ==
    /\ pc[t] = "idle"
    /\ status[t] = "run"
    /\ guards[t] >= 1
    /\ EnteredCritical_drop(t)

\* EnteredCritical::is_poisoned(&self): what a guard of thread t reads.
EnteredCritical_is_poisoned(t) == poison

\* Mutant of EnteredCritical_clear_poison: the store is inverted.
EnteredCritical_clear_poison_inverted(t) ==
    /\ pc[t] = "idle"
    /\ status[t] = "run"
    /\ guards[t] >= 1
    /\ poison' = TRUE
    /\ UNCHANGED <<osVars, kind, init_spin_count, uninit, eqVars, init, strong, refExists,
                   pc, op, via, arg, testVars, status, guards, handles, calls>>

\* EnteredCritical::clear_poison(&self): writes false while entered.
EnteredCritical_clear_poison(t) ==
    /\ pc[t] = "idle"
    /\ status[t] = "run"
    /\ guards[t] >= 1
    /\ poison' = FALSE
    /\ UNCHANGED <<osVars, kind, init_spin_count, uninit, eqVars, init, strong, refExists,
                   pc, op, via, arg, testVars, status, guards, handles, calls>>

\* ------------------------------------------ the bodies after the receiver
\* Mutant of EnterBody: the guard is made without the OS enter call.
EnterBody_unlocked(t) ==
    /\ EnteredCritical_new(t)
    /\ Return(t)
    /\ UNCHANGED <<OwningThread, RecursionCount>>

\* Mutant of EnterBody: a poisoned lock is not handed out.
EnterBody_poison_enforced(t) ==
    /\ ~poison
    /\ enter_cs(t)
    /\ EnteredCritical_new(t)
    /\ Return(t)

\* enter, entered: enter_cs(ptr) has returned, then EnteredCritical::new.
EnterBody(t) ==
    /\ enter_cs(t)
    /\ EnteredCritical_new(t)
    /\ Return(t)

\* enter with no initialisation check: the thread acquires at once, or is
\* blocked inside enter_cs until it can.
EnterNow(t, v) ==
    IF cs_can_enter(t)
    THEN EnterBody(t)
    ELSE /\ Inside(t, "enter", v, 0, "body")
         /\ UNCHANGED <<OwningThread, RecursionCount, guards>>

\* Mutant of TryEnterBody: the arms of the match are swapped.
TryEnterBody_swapped(t) ==
    IF try_enter_cs(t) # 0
    THEN /\ enter_cs(t)
         /\ guards' = guards
         /\ Return(t)
    ELSE /\ EnteredCritical_new(t)
         /\ Return(t)
         /\ UNCHANGED <<OwningThread, RecursionCount>>

\* Mutant of TryEnterBody: enter_cs is called in place of try_enter_cs.
TryEnterBody_blocking(t) ==
    /\ enter_cs(t)
    /\ EnteredCritical_new(t)
    /\ Return(t)

\* try_enter: match try_enter_cs(ptr) { 0 => None, _ => Some(new) }.
TryEnterBody(t) ==
    IF try_enter_cs(t) = 0
    THEN /\ Return(t)
         /\ UNCHANGED <<OwningThread, RecursionCount, guards>>
    ELSE /\ enter_cs(t)
         /\ EnteredCritical_new(t)
         /\ Return(t)

\* set_spin_count: set_cs_spin_count(ptr, n), returns the previous count.
SetSpinCountBody(t, n) ==
    /\ SpinCount' = n
    /\ Return(t)

\* What enter and try_enter leave alone.
EnterFrame == UNCHANGED <<osState, SpinCount, osInitCalls, osDeleteCalls, lockVars,
                          testVars, status, handles>>

\* What set_spin_count leaves alone.
SpinFrame == UNCHANGED <<osState, OwningThread, RecursionCount, osInitCalls,
                         osDeleteCalls, lockVars, testVars, status, guards, handles>>

\* EnteredCritical::set_spin_count(&self, n).
EnteredCritical_set_spin_count(t) ==
    /\ CanCall(t)
    /\ guards[t] >= 1
    /\ calls' = calls + 1
    /\ \E n \in SpinValues : SetSpinCountBody(t, n)
    /\ SpinFrame

\* ------------------------------------- CriticalSection (src/src/crit.rs)
HasHandle(t) == kind = "Shared" /\ handles[t] >= 1

CriticalSection_enter(t) ==
    \/ /\ CanCall(t)
       /\ HasHandle(t)
       /\ guards[t] < MaxDepth
       /\ calls' = calls + 1
       /\ EnterNow(t, "shared")
       /\ EnterFrame
    \/ /\ pc[t] = "body" /\ op[t] = "enter" /\ via[t] = "shared"
       /\ EnterBody(t)
       /\ EnterFrame
       /\ UNCHANGED calls

CriticalSection_try_enter(t) ==
    /\ CanCall(t)
    /\ HasHandle(t)
    /\ guards[t] < MaxDepth
    /\ calls' = calls + 1
    /\ TryEnterBody(t)
    /\ EnterFrame

CriticalSection_set_spin_count(t) ==
    /\ CanCall(t)
    /\ HasHandle(t)
    /\ calls' = calls + 1
    /\ \E n \in SpinValues : SetSpinCountBody(t, n)
    /\ SpinFrame

\* #[derive(Clone)]: Arc::clone; the new handle is given to thread u.
CriticalSection_clone(t) ==
    /\ pc[t] = "idle"
    /\ status[t] = "run"
    /\ HasHandle(t)
    /\ strong < MaxHandles
    /\ \E u \in Threads :
         /\ pc[u] = "idle"
         /\ status[u] = "run"
         /\ handles' = [handles EXCEPT ![u] = @ + 1]
    /\ strong' = strong + 1
    /\ UNCHANGED <<osVars, kind, init_spin_count, uninit, eqVars, init, poison, refExists,
                   pc, callVars, testVars, status, guards, calls>>

\* Mutant of CriticalSection_drop: the count is compared with 2.
CriticalSection_drop_early(t) ==
    /\ IF strong <= 2
       THEN delete_cs
       ELSE UNCHANGED <<osState, osDeleteCalls>>
    /\ pc' = [pc EXCEPT ![t] = "hdec"]
    /\ UNCHANGED <<OwningThread, RecursionCount, SpinCount, osInitCalls, lockVars,
                   callVars, testVars, status, guards, handles, calls>>

\* Drop for CriticalSection, lines 77-85:
\* if Arc::strong_count(&self.inner) == 1 { delete_cs(...) }.
CriticalSection_drop(t) ==
    /\ IF strong = 1
       THEN delete_cs
       ELSE UNCHANGED <<osState, osDeleteCalls>>
    /\ pc' = [pc EXCEPT ![t] = "hdec"]
    /\ UNCHANGED <<OwningThread, RecursionCount, SpinCount, osInitCalls, lockVars,
                   callVars, testVars, status, guards, handles, calls>>

\* A handle goes out of scope in user code.  Guards borrow a handle, so a
\* thread keeps one handle for as long as it holds guards.
CriticalSection_drop_scope(t) ==
    /\ pc[t] = "idle"
    /\ status[t] = "run"
    /\ HasHandle(t)
    /\ guards[t] = 0 \/ handles[t] >= 2
    /\ CriticalSection_drop(t)

\* A handle dropped by the thread's return or unwinding.
CriticalSection_drop_unwind(t) ==
    /\ pc[t] = "hdrop"
    /\ CriticalSection_drop(t)

\* After Drop::drop the field `inner` is dropped: the Arc count goes down.
CriticalSection_drop_inner(t) ==
    /\ pc[t] = "hdec"
    /\ strong' = strong - 1
    /\ handles' = [handles EXCEPT ![t] = @ - 1]
    /\ pc' = [pc EXCEPT ![t] = Continue(status[t], guards[t], handles[t] - 1)]
    /\ UNCHANGED <<osVars, kind, init_spin_count, uninit, eqVars, init, poison, refExists,
                   callVars, testVars, status, guards, calls>>

\* --------------------------------- CriticalStatic (src/src/crit_static.rs)
\* init_once, line 79: if INITIALIZED == self.init.load(Acquire) { return }
\* is the first step of every safe function of CriticalStatic.
init_once_load(t, o, n) ==
    /\ CanCall(t)
    /\ kind = "Static"
    /\ calls' = calls + 1
    /\ Inside(t, o, "static", n, IF init = INITIALIZED THEN "body" ELSE "cas")
    /\ UNCHANGED <<osVars, lockVars, testVars, status, guards, handles>>

\* Mutant of init_once_cas: the loser of the compare-and-swap returns at once
\* instead of spinning.
init_once_cas_nowait(t) ==
    /\ pc[t] = "cas"
    /\ IF init = UNINITIALIZED
       THEN /\ init' = INITIALIZING
            /\ pc' = [pc EXCEPT ![t] = "init"]
       ELSE /\ init' = init
            /\ pc' = [pc EXCEPT ![t] = "body"]
    /\ UNCHANGED <<osVars, kind, init_spin_count, uninit, eqVars, poison, strong, refExists,
                   callVars, testVars, status, guards, handles, calls>>

\* init_once, lines 81-89: compare_exchange(UNINITIALIZED, INITIALIZING).
init_once_cas(t) ==
    /\ pc[t] = "cas"
    /\ IF init = UNINITIALIZED
       THEN /\ init' = INITIALIZING
            /\ pc' = [pc EXCEPT ![t] = "init"]
       ELSE /\ init' = init
            /\ pc' = [pc EXCEPT ![t] = "spin"]
    /\ UNCHANGED <<osVars, kind, init_spin_count, uninit, eqVars, poison, strong, refExists,
                   callVars, testVars, status, guards, handles, calls>>

\* init_once, lines 91-101: the winner runs OS init under a PoisonCatcher; the
\* wrapper panics when the OS call fails.
init_once_init(t) ==
    /\ pc[t] = "init"
    /\ \/ /\ init_cs(IF init_spin_count = None THEN 0 ELSE Unwrap(init_spin_count))
          /\ pc' = [pc EXCEPT ![t] = "store"]
          /\ UNCHANGED <<callVars, status>>
       \/ /\ init_cs_fails
          /\ Panics(t, "catcher")
    /\ UNCHANGED <<osDeleteCalls, lockVars, testVars, guards, handles, calls>>

\* Drop for PoisonCatcher (lines 74-78), run by the unwinding winner.
PoisonCatcher_drop(t) ==
    /\ pc[t] = "catcher"
    /\ init' = POISONED
    /\ pc' = [pc EXCEPT ![t] = Continue(status[t], guards[t], handles[t])]
    /\ UNCHANGED <<osVars, kind, init_spin_count, uninit, eqVars, poison, strong, refExists,
                   callVars, testVars, status, guards, handles, calls>>

\* Mutant of init_once_store: the winner returns without storing INITIALIZED.
init_once_store_forgotten(t) ==
    /\ pc[t] = "store"
    /\ pc' = [pc EXCEPT ![t] = "body"]
    /\ UNCHANGED <<osVars, lockVars, callVars, testVars, status, guards, handles, calls>>

\* init_once, lines 101-103: forget(catcher); self.init.store(INITIALIZED).
init_once_store(t) ==
    /\ pc[t] = "store"
    /\ init' = INITIALIZED
    /\ pc' = [pc EXCEPT ![t] = "body"]
    /\ UNCHANGED <<osVars, kind, init_spin_count, uninit, eqVars, poison, strong, refExists,
                   callVars, testVars, status, guards, handles, calls>>

\* Mutant of init_once_spin: the loop does not look for POISONED.
init_once_spin_nopoison(t) ==
    /\ pc[t] = "spin"
    /\ pc' = [pc EXCEPT ![t] = IF init = INITIALIZED THEN "body" ELSE "spin"]
    /\ UNCHANGED <<osVars, lockVars, callVars, testVars, status, guards, handles, calls>>

\* init_once, lines 106-113: one turn of the spin loop.
init_once_spin(t) ==
    /\ pc[t] = "spin"
    /\ IF init = INITIALIZED
       THEN /\ pc' = [pc EXCEPT ![t] = "body"]
            /\ UNCHANGED <<callVars, status>>
       ELSE IF init = POISONED
       THEN Panics(t, Continue("panic", guards[t], handles[t]))
       ELSE UNCHANGED <<pc, callVars, status>>
    /\ UNCHANGED <<osVars, lockVars, testVars, guards, handles, calls>>

init_once(t) ==
    \/ init_once_cas(t)
    \/ init_once_init(t)
    \/ PoisonCatcher_drop(t)
    \/ init_once_store(t)
    \/ init_once_spin(t)

\* The function of CriticalStatic that thread t is in has passed init_once.
AfterInitOnce(t, o) == pc[t] = "body" /\ op[t] = o /\ via[t] = "static"

CriticalStatic_enter(t) ==
    \/ /\ guards[t] < MaxDepth
       /\ init_once_load(t, "enter", 0)
    \/ /\ AfterInitOnce(t, "enter")
       /\ EnterBody(t)
       /\ EnterFrame
       /\ UNCHANGED calls

CriticalStatic_try_enter(t) ==
    \/ /\ guards[t] < MaxDepth
       /\ init_once_load(t, "try_enter", 0)
    \/ /\ AfterInitOnce(t, "try_enter")
       /\ TryEnterBody(t)
       /\ EnterFrame
       /\ UNCHANGED calls

CriticalStatic_set_spin_count(t) ==
    \/ \E n \in SpinValues : init_once_load(t, "set_spin_count", n)
    \/ /\ AfterInitOnce(t, "set_spin_count")
       /\ SetSpinCountBody(t, arg[t])
       /\ SpinFrame
       /\ UNCHANGED calls

\* Mutant of CriticalStatic_get_ref: the reference is made without init_once.
CriticalStatic_get_ref_unchecked(t) ==
    /\ CanCall(t)
    /\ kind = "Static"
    /\ calls' = calls + 1
    /\ refExists' = TRUE
    /\ UNCHANGED <<osVars, kind, init_spin_count, uninit, eqVars, init, poison, strong,
                   pc, callVars, testVars, status, guards, handles>>

\* get_ref: init_once, then CriticalStaticRef(&self.inner, Init).
CriticalStatic_get_ref(t) ==
    \/ init_once_load(t, "get_ref", 0)
    \/ /\ AfterInitOnce(t, "get_ref")
       /\ refExists' = TRUE
       /\ Return(t)
       /\ UNCHANGED <<osVars, kind, init_spin_count, uninit, eqVars, init, poison, strong,
                      testVars, status, guards, handles, calls>>

\* CriticalStaticRef<Init> is Copy + Send + Sync: once one exists, any thread
\* may hold a copy.
CriticalStaticRef_enter(t) ==
    \/ /\ CanCall(t)
       /\ refExists
       /\ guards[t] < MaxDepth
       /\ calls' = calls + 1
       /\ EnterNow(t, "ref")
       /\ EnterFrame
    \/ /\ pc[t] = "body" /\ op[t] = "enter" /\ via[t] = "ref"
       /\ EnterBody(t)
       /\ EnterFrame
       /\ UNCHANGED calls

\* Mutant of CriticalStaticRef_try_enter: the arms of the match are swapped.
CriticalStaticRef_try_enter_swapped(t) ==
    /\ CanCall(t)
    /\ refExists
    /\ guards[t] < MaxDepth
    /\ calls' = calls + 1
    /\ TryEnterBody_swapped(t)
    /\ EnterFrame

CriticalStaticRef_try_enter(t) ==
    /\ CanCall(t)
    /\ refExists
    /\ guards[t] < MaxDepth
    /\ calls' = calls + 1
    /\ TryEnterBody(t)
    /\ EnterFrame

CriticalStaticRef_set_spin_count(t) ==
    /\ CanCall(t)
    /\ refExists
    /\ calls' = calls + 1
    /\ \E n \in SpinValues : SetSpinCountBody(t, n)
    /\ SpinFrame

\* ------------------------- handles and their allocations (src/src/crit.rs)
\* The handle variables that are in use, and the addresses no handle holds.
Live == {c \in Slots : inner[c] # NoAddr}
Free == {a \in Addrs : \A c \in Slots : inner[c] # a}

\* What the functions below leave alone.
EqFrame == UNCHANGED <<osVars, kind, init_spin_count, uninit, init, poison, strong,
                       refExists, pc, op, via, arg, testVars, status, guards, handles,
                       calls>>

\* Arc::new(POISONABLE_ZEROED), then the OS init with spin count n: the
\* allocator hands out any address that is not in use.
NewBody(c, n) ==
    /\ c \notin Live
    /\ serial < MaxNews
    /\ \E a \in Free :
          /\ inner' = [inner EXCEPT ![c] = a]
          /\ heap' = [heap EXCEPT ![a] = [SpinCount |-> n, poison |-> FALSE]]
    /\ serial' = serial + 1
    /\ origin' = [origin EXCEPT ![c] = serial + 1]
    /\ EqFrame

\* let c = CriticalSection::new();
CriticalSection_new(c) == NewBody(c, 0)

\* let c = CriticalSection::with_spin_count(n);
CriticalSection_with_spin_count(c) == \E n \in SpinValues : NewBody(c, n)

\* let d = c.clone();  #[derive(Clone)]: Arc::clone of the field.
Clone_clone(c, d) ==
    /\ c \in Live
    /\ d \notin Live
    /\ inner' = [inner EXCEPT ![d] = inner[c]]
    /\ origin' = [origin EXCEPT ![d] = origin[c]]
    /\ UNCHANGED <<heap, serial>>
    /\ EqFrame

\* drop(c): the variable is gone, and with the last one the allocation.
Drop_drop(c) ==
    /\ c \in Live
    /\ inner' = [inner EXCEPT ![c] = NoAddr]
    /\ origin' = [origin EXCEPT ![c] = 0]
    /\ UNCHANGED <<heap, serial>>
    /\ EqFrame

\* c.set_spin_count(n), and a panicking guard drop on c: the contents of the
\* allocation change.
Contents_set_spin_count(c) ==
    /\ c \in Live
    /\ \E n \in SpinValues : heap' = [heap EXCEPT ![inner[c]].SpinCount = n]
    /\ heap' # heap
    /\ UNCHANGED <<inner, origin, serial>>
    /\ EqFrame

Contents_poison(c) ==
    /\ c \in Live
    /\ heap' = [heap EXCEPT ![inner[c]].poison = ~@]
    /\ UNCHANGED <<inner, origin, serial>>
    /\ EqFrame

\* Mutant of PartialEq_eq: the contents are compared (a derived PartialEq).
PartialEq_eq_derived(c, d) == heap[inner[c]] = heap[inner[d]]

\* impl PartialEq for CriticalSection: the addresses of the allocations.
PartialEq_eq(c, d) == inner[c] = inner[d]

\* ------------------- the unsafe and the explicit paths of crit_static.rs
\* What the caller of an unsafe function vouches for (spec section 4.3): no
\* concurrent use.  Nobody else is inside a call or holds a guard, and the
\* caller holds none.
Exclusive(t) ==
    /\ guards[t] = 0
    /\ \A u \in Threads \ {t} : pc[u] \in {"idle", "done"} /\ guards[u] = 0

\* ... and what it vouches for afterwards: no use of a deleted object, and no
\* new call while an explicit initialisation is running.
Usable == osState # "deleted" /\ \A u \in Threads : pc[u] # "uinit"

\* What the explicit paths leave alone.
ExplicitFrame == UNCHANGED <<kind, init_spin_count, eqVars, init, strong,
                            testVars, status, guards, handles>>

\* unsafe assume_uninit: CriticalStaticRef(&self.inner, Uninit).  The caller
\* claims that the object is not initialised.
CriticalStatic_assume_uninit(t) ==
    /\ CanCall(t)
    /\ kind = "Static"
    /\ osState # "live"
    /\ Exclusive(t)
    /\ uninit[t] = 0
    /\ calls' = calls + 1
    /\ uninit' = [uninit EXCEPT ![t] = 1]
    /\ UNCHANGED <<osVars, poison, refExists, pc, callVars>>
    /\ ExplicitFrame

\* unsafe delete, on CriticalStatic and on CriticalStaticRef<Init>:
\* delete_cs(ptr), and an Uninit reference is returned.
DeleteBody(t) ==
    /\ osState = "live"
    /\ Exclusive(t)
    /\ uninit[t] = 0
    /\ calls' = calls + 1
    /\ delete_cs
    /\ uninit' = [uninit EXCEPT ![t] = 1]
    /\ UNCHANGED <<OwningThread, RecursionCount, SpinCount, osInitCalls,
                   poison, refExists, pc, callVars>>
    /\ ExplicitFrame

\* Mutant of CriticalStatic_delete: the init word is reset with the object.
CriticalStatic_delete_resets(t) ==
    /\ CanCall(t)
    /\ kind = "Static"
    /\ osState = "live"
    /\ Exclusive(t)
    /\ uninit[t] = 0
    /\ calls' = calls + 1
    /\ delete_cs
    /\ init' = UNINITIALIZED
    /\ uninit' = [uninit EXCEPT ![t] = 1]
    /\ UNCHANGED <<OwningThread, RecursionCount, SpinCount, osInitCalls,
                   poison, refExists, pc, callVars>>
    /\ UNCHANGED <<kind, init_spin_count, eqVars, strong, testVars, status, guards, handles>>

CriticalStatic_delete(t) ==
    /\ CanCall(t)
    /\ kind = "Static"
    /\ DeleteBody(t)

CriticalStaticRef_delete(t) ==
    /\ CanCall(t)
    /\ refExists
    /\ DeleteBody(t)

\* The first statement of every explicit init: clear_poison_unsynced().
ExplicitInitBegin(t, o, v, n) ==
    /\ calls' = calls + 1
    /\ poison' = FALSE
    /\ Inside(t, o, v, n, "uinit")
    /\ UNCHANGED <<osVars, refExists>>
    /\ ExplicitFrame

\* The second: init_cs(ptr) or init_cs_with_spin_count(ptr, n); the wrapper
\* panics when the OS call fails.  Then init() returns, init_with_spin_count
\* of CriticalStatic goes on to get_ref(), and the functions of
\* CriticalStaticRef<Uninit> return CriticalStaticRef(self.0, Init).
explicit_init_cs(t) ==
    /\ pc[t] = "uinit"
    /\ \/ /\ init_cs(IF op[t] = "init" THEN 0 ELSE arg[t])
          /\ IF via[t] = "uninit"
             THEN refExists' = TRUE /\ Return(t)
             ELSE IF op[t] = "init"
             THEN UNCHANGED refExists /\ Return(t)
             ELSE /\ pc' = [pc EXCEPT ![t] = "uload"]
                  /\ UNCHANGED <<refExists, callVars>>
          /\ UNCHANGED status
       \/ /\ init_cs_fails
          /\ Panics(t, Continue("panic", guards[t], handles[t]))
          /\ UNCHANGED refExists
    /\ UNCHANGED <<osDeleteCalls, kind, init_spin_count, uninit, eqVars, init,
                   poison, strong, testVars, guards, handles, calls>>

\* unsafe CriticalStatic::init.
CriticalStatic_init(t) ==
    /\ CanCall(t)
    /\ kind = "Static"
    /\ osState # "live"
    /\ Exclusive(t)
    /\ ExplicitInitBegin(t, "init", "static", 0)
    /\ UNCHANGED uninit

\* unsafe CriticalStatic::init_with_spin_count(n): clear, init, get_ref().
CriticalStatic_init_with_spin_count(t) ==
    \/ /\ CanCall(t)
       /\ kind = "Static"
       /\ osState # "live"
       /\ Exclusive(t)
       /\ \E n \in SpinValues : ExplicitInitBegin(t, "init_with_spin_count", "static", n)
       /\ UNCHANGED uninit
    \/ /\ pc[t] = "uload"
       /\ pc' = [pc EXCEPT ![t] = IF init = INITIALIZED THEN "body" ELSE "cas"]
       /\ UNCHANGED <<osVars, lockVars, callVars, testVars, status, guards, handles, calls>>
    \/ /\ AfterInitOnce(t, "init_with_spin_count")
       /\ refExists' = TRUE
       /\ Return(t)
       /\ UNCHANGED <<osVars, kind, init_spin_count, uninit, eqVars, init, poison, strong,
                      testVars, status, guards, handles, calls>>

\* CriticalStaticRef<Uninit>::init(self): safe, the reference is consumed.
CriticalStaticRefUninit_init(t) ==
    /\ CanCall(t)
    /\ uninit[t] >= 1
    /\ uninit' = [uninit EXCEPT ![t] = @ - 1]
    /\ ExplicitInitBegin(t, "init", "uninit", 0)

\* CriticalStaticRef<Uninit>::init_with_spin_count(self, n).
CriticalStaticRefUninit_init_with_spin_count(t) ==
    /\ CanCall(t)
    /\ uninit[t] >= 1
    /\ uninit' = [uninit EXCEPT ![t] = @ - 1]
    /\ \E n \in SpinValues : ExplicitInitBegin(t, "init_with_spin_count", "uninit", n)

\* --------------------------------------------- the threads of the tests
\* threads_on_the_wall: let x = 1 + X; thread::yield_now();
threads_on_the_wall_read(t) ==
    /\ pc[t] = "idle"
    /\ status[t] = "run"
    /\ guards[t] >= 1
    /\ incs + Cardinality({u \in Threads : pc[u] = "yield"}) < MaxIncr
    /\ x' = [x EXCEPT ![t] = 1 + X]
    /\ pc' = [pc EXCEPT ![t] = "yield"]
    /\ UNCHANGED <<osVars, lockVars, callVars, X, incs, status, guards, handles, calls>>

\* threads_on_the_wall: X = x;
threads_on_the_wall_write(t) ==
    /\ pc[t] = "yield"
    /\ X' = x[t]
    /\ x' = [x EXCEPT ![t] = 0]
    /\ incs' = incs + 1
    /\ pc' = [pc EXCEPT ![t] = "idle"]
    /\ UNCHANGED <<osVars, lockVars, callVars, status, guards, handles, calls>>

\* threads_on_the_wall: panic!("Take one down") in user code.
threads_on_the_wall_panic(t) ==
    /\ pc[t] = "idle"
    /\ status[t] = "run"
    /\ Panics(t, Continue("panic", guards[t], handles[t]))
    /\ UNCHANGED <<osVars, lockVars, testVars, guards, handles, calls>>

\* The thread's closure returns: its locals go out of scope.
threads_on_the_wall_return(t) ==
    /\ pc[t] = "idle"
    /\ status[t] = "run"
    /\ status' = [status EXCEPT ![t] = "exit"]
    /\ pc' = [pc EXCEPT ![t] = Continue("exit", guards[t], handles[t])]
    /\ UNCHANGED <<osVars, lockVars, op, via, arg, testVars, guards, handles, calls>>

\* ------------------------------------------------------------- the system
Step(t) ==
    \/ CriticalSection_enter(t)
    \/ CriticalSection_try_enter(t)
    \/ CriticalSection_set_spin_count(t)
    \/ CriticalSection_clone(t)
    \/ CriticalSection_drop_scope(t)
    \/ CriticalSection_drop_unwind(t)
    \/ CriticalSection_drop_inner(t)
    \/ init_once(t)
    \/ CriticalStatic_enter(t)
    \/ CriticalStatic_try_enter(t)
    \/ CriticalStatic_set_spin_count(t)
    \/ CriticalStatic_get_ref(t)
    \/ CriticalStaticRef_enter(t)
    \/ CriticalStaticRef_try_enter(t)
    \/ CriticalStaticRef_set_spin_count(t)
    \/ EnteredCritical_leave(t)
    \/ EnteredCritical_drop_poison(t)
    \/ EnteredCritical_drop_leave(t)
    \/ EnteredCritical_clear_poison(t)
    \/ EnteredCritical_set_spin_count(t)
    \/ threads_on_the_wall_read(t)
    \/ threads_on_the_wall_write(t)
    \/ threads_on_the_wall_panic(t)
    \/ threads_on_the_wall_return(t)

Next == \E t \in Threads : Step(t)

Spec == Init /\ [][Next]_vars

\* The race of section 4.3: the threads call enter, try_enter, set_spin_count
\* and get_ref on a fresh Static Lock, NThreads calls in all, release what
\* they hold, and may panic or return at any point.
RaceStep(t) ==
    \/ init_once(t)
    \/ CriticalStatic_enter(t) /\ calls' <= NThreads
    \/ CriticalStatic_try_enter(t) /\ calls' <= NThreads
    \/ CriticalStatic_set_spin_count(t) /\ calls' <= NThreads
    \/ CriticalStatic_get_ref(t) /\ calls' <= NThreads
    \/ EnteredCritical_leave(t)
    \/ EnteredCritical_drop_poison(t)
    \/ EnteredCritical_drop_leave(t)
    \/ threads_on_the_wall_panic(t)
    \/ threads_on_the_wall_return(t)

RaceNext == \E t \in Threads : RaceStep(t)

\* A fresh Static Lock.
RaceInit == Init /\ kind = "Static"

\* Preemptive OS threads: a thread that can take a step eventually takes one.
RaceSpec ==
    /\ RaceInit
    /\ [][RaceNext]_vars
    /\ \A t \in Threads : WF_vars(RaceStep(t))

\* The threads of threads_on_the_wall without the counter: they enter (on
\* either kind of lock, nested up to MaxDepth), leave, panic or return, and
\* their guards and handles are dropped on the way out.
UnwindStep(t) ==
    \/ CriticalSection_enter(t)
    \/ CriticalSection_clone(t)
    \/ CriticalSection_drop_unwind(t)
    \/ CriticalSection_drop_inner(t)
    \/ init_once(t)
    \/ CriticalStatic_enter(t)
    \/ EnteredCritical_leave(t)
    \/ EnteredCritical_drop_poison(t)
    \/ EnteredCritical_drop_leave(t)
    \/ threads_on_the_wall_panic(t)
    \/ threads_on_the_wall_return(t)

UnwindNext == \E t \in Threads : UnwindStep(t)

UnwindSpec == Init /\ [][UnwindNext]_vars /\ \A t \in Threads : WF_vars(UnwindStep(t))

\* A Static Lock used through its safe functions (enter, try_enter, get_ref,
\* and enter on a reference) and through its unsafe and explicit ones, the
\* callers of the unsafe ones keeping to their contract.
UnsafeStep(t) ==
    \/ init_once(t)
    \/ CriticalStatic_enter(t) /\ Usable
    \/ CriticalStatic_try_enter(t) /\ Usable
    \/ CriticalStatic_get_ref(t) /\ Usable
    \/ CriticalStaticRef_enter(t) /\ Usable
    \/ CriticalStatic_assume_uninit(t)
    \/ CriticalStatic_delete(t)
    \/ CriticalStaticRef_delete(t)
    \/ CriticalStatic_init(t)
    \/ CriticalStatic_init_with_spin_count(t)
    \/ CriticalStaticRefUninit_init(t)
    \/ CriticalStaticRefUninit_init_with_spin_count(t)
    \/ explicit_init_cs(t)
    \/ EnteredCritical_leave(t)
    \/ EnteredCritical_drop_poison(t)
    \/ EnteredCritical_drop_leave(t)
    \/ EnteredCritical_clear_poison(t)
    \/ threads_on_the_wall_panic(t)
    \/ threads_on_the_wall_return(t)

UnsafeNext == \E t \in Threads : UnsafeStep(t)

UnsafeSpec == RaceInit /\ [][UnsafeNext]_vars

\* Handles of Shared Locks made, cloned, dropped and compared.
EqInit == Init /\ kind = "Shared"

EqNext ==
    \/ \E c \in Slots : CriticalSection_new(c)
    \/ \E c \in Slots : CriticalSection_with_spin_count(c)
    \/ \E c, d \in Slots : Clone_clone(c, d)
    \/ \E c \in Slots : Drop_drop(c)
    \/ \E c \in Slots : Contents_set_spin_count(c)
    \/ \E c \in Slots : Contents_poison(c)

EqSpec == EqInit /\ [][EqNext]_vars

TypeOK ==
    /\ kind \in {"Shared", "Static"}
    /\ init \in {UNINITIALIZED, INITIALIZING, INITIALIZED, POISONED}
    /\ osState \in {"zeroed", "live", "deleted"}
    /\ OwningThread \in Threads \cup {NoThread}
    /\ RecursionCount \in 0..MaxDepth
    /\ SpinCount \in {0} \cup SpinValues
    /\ poison \in BOOLEAN
    /\ strong \in 0..MaxHandles
    /\ guards \in [Threads -> 0..MaxDepth]
    /\ handles \in [Threads -> 0..MaxHandles]
    /\ calls \in 0..MaxCalls

\* ------------------------------------------------------------ the claims
Holds(t) == guards[t] >= 1
Yielding == {t \in Threads : pc[t] = "yield"}
Over(t) == pc[t] = "done"

\* C1. Mutual exclusion, no lost update: two different threads never hold a
\* live guard at once; a thread between its read and its write of X has read
\* the current X; and whenever no increment is in progress X equals the number
\* of increments completed, so at the end X is the number of threads that got
\* through their increment.
MutualExclusion ==
    /\ \A t, u \in Threads : Holds(t) /\ Holds(u) => t = u
    /\ \A t \in Yielding : Holds(t) /\ x[t] = X + 1
    /\ Yielding = {} => X = incs

\* C1 witness: all threads are over, one of them panicked holding the lock
\* and another one incremented X.
MutualExclusionWitness ==
    /\ \A t \in Threads : Over(t)
    /\ \E t \in Threads : status[t] = "panic"
    /\ poison
    /\ X = 1 /\ incs = 1

\* C2. Exactly-once static init: OS init runs at most once, run by the one
\* thread between its successful compare-and-swap and its final store; once
\* any thread is past init_once it has run exactly once and succeeded; and
\* every thread that is at an OS enter, try_enter or set_spin_count call, or
\* holds what such a call gave it, sees the state word INITIALIZED.
Winners == {t \in Threads : pc[t] \in {"init", "store", "catcher"}}
ExactlyOnceInit ==
    kind = "Static" =>
        /\ osInitCalls <= 1
        /\ Cardinality(Winners) <= 1
        /\ init = UNINITIALIZED => osInitCalls = 0 /\ Winners = {}
        /\ init = INITIALIZING <=> Winners # {}
        /\ \A t \in Threads :
             (pc[t] = "body" \/ Holds(t) \/ refExists \/ OwningThread # NoThread)
                => init = INITIALIZED /\ osState = "live" /\ osInitCalls = 1

\* C2 witness: two threads raced through init_once; one holds the lock and
\* the other is blocked in OS enter.
ExactlyOnceInitWitness ==
    /\ kind = "Static"
    /\ osInitCalls = 1
    /\ \E t, u \in Threads :
         /\ t # u
         /\ Holds(t)
         /\ pc[u] = "body" /\ op[u] = "enter"

\* C4. Exactly-once delete (the claim as stated): the OS object is never
\* deleted twice, is not deleted while another handle is left, and has been
\* deleted once the last handle is gone.
ExactlyOnceDelete ==
    kind = "Shared" =>
        /\ osDeleteCalls <= 1
        /\ osDeleteCalls = 1 => strong <= 1
        /\ strong = 0 => osDeleteCalls = 1

\* C8. Re-entrancy: a thread that holds a guard owns the OS lock to the depth
\* of its guards, so OS enter and try_enter let it in again at once: it is
\* never blocked in enter, and its try_enter gives Some; no other thread can
\* enter until its last guard is released.
InTryEnter(t) ==
    \/ CriticalSection_try_enter(t)
    \/ AfterInitOnce(t, "try_enter") /\ CriticalStatic_try_enter(t)
    \/ CriticalStaticRef_try_enter(t)
ReentrancyState ==
    \A t \in Threads :
        Holds(t) =>
            /\ cs_can_enter(t)
            /\ try_enter_cs(t) # 0
            /\ RecursionCount = guards[t]
            /\ \A u \in Threads \ {t} : ~cs_can_enter(u) /\ try_enter_cs(u) = 0
Reentrancy ==
    /\ []ReentrancyState
    /\ [][\A t \in Threads :
            Holds(t) /\ InTryEnter(t) => guards'[t] = guards[t] + 1]_vars

\* C8 witness: a thread holds two guards while another thread is blocked in
\* enter.
ReentrancyWitness ==
    \E t, u \in Threads :
        /\ guards[t] = 2
        /\ RecursionCount = 2
        /\ pc[u] = "body" /\ op[u] = "enter" /\ ~cs_can_enter(u)

\* C9. Exactly-once release: the guards a thread holds are exactly the levels
\* of the OS lock it owns, and a thread that is about to call OS leave, by
\* leave() or by a drop at scope exit or unwinding, owns the lock; each such
\* step gives up one guard and one level, whichever way it was begun.
Releasing(t) == EnteredCritical_leave(t) \/ EnteredCritical_drop_leave(t)
ExactlyOnceReleaseState ==
    /\ RecursionCount >= 0
    /\ OwningThread = NoThread <=> RecursionCount = 0
    /\ \A t \in Threads :
         /\ guards[t] = IF OwningThread = t THEN RecursionCount ELSE 0
         /\ pc[t] \in {"drop", "leave"} => OwningThread = t
         /\ Over(t) => guards[t] = 0
ExactlyOnceRelease ==
    /\ []ExactlyOnceReleaseState
    /\ [][\A t \in Threads :
            Releasing(t) => /\ OwningThread = t
                            /\ RecursionCount' = RecursionCount - 1
                            /\ guards'[t] = guards[t] - 1]_vars

\* C9 witness: a thread that held two guards has released one by leave() and
\* is releasing the other by its scope exit.
ExactlyOnceReleaseWitness ==
    \E t \in Threads :
        /\ status[t] = "exit"
        /\ pc[t] = "leave"
        /\ guards[t] = 1
        /\ calls = 2

\* C5. Poison propagation: a panicking thread reaches the OS leave call of a
\* guard only with the poison flag already true, and the flag, once true,
\* goes back to false by clear_poison alone; so whoever enters after the
\* panicking thread's release reads is_poisoned() = true until somebody
\* clears it.
PoisonPropagation ==
    /\ [](\A t \in Threads : pc[t] = "leave" /\ status[t] = "panic" => poison)
    /\ [][\A t \in Threads :
            EnteredCritical_drop_leave(t) /\ status[t] = "panic" => poison']_vars
    /\ [][poison /\ ~poison' => \E t \in Threads : EnteredCritical_clear_poison(t)]_vars

\* C5 witness: a thread that panicked holding the lock is over, and another
\* thread has entered since and reads is_poisoned() = true.
PoisonPropagationWitness ==
    \E t, u \in Threads :
        /\ t # u
        /\ status[t] = "panic" /\ Over(t)
        /\ status[u] = "run" /\ Holds(u)
        /\ EnteredCritical_is_poisoned(u)

\* A thread inside an API call that can take no step of its own now: it waits
\* for another thread.
Waits(t) == op[t] # NoCall /\ ~ENABLED <<Step(t)>>_vars

InStaticEnter(t) == op[t] = "enter" /\ via[t] = "static"
Entered(t) == pc[t] = "idle" /\ Holds(t)
StaticInitLiveness ==
    \A t \in Threads : InStaticEnter(t) ~> (Entered(t) \/ init = POISONED)

\* C3 witness: two threads have called enter() on the fresh Static Lock; one
\* initialisation has run, one thread is back with a guard and the other has
\* left init_once and waits in the OS enter.
StaticInitLivenessWitness ==
    /\ osInitCalls = 1
    /\ init = INITIALIZED
    /\ \E t, u \in Threads :
         /\ t # u
         /\ Entered(t)
         /\ InStaticEnter(u) /\ pc[u] = "body" /\ ~cs_can_enter(u)

\* C6. Static-init poison: once the winner's OS init has panicked the state
\* word becomes POISONED and stays so; OS init is not run again, the object is
\* never entered and no guard or Init reference exists; and every thread
\* inside a function of the Static Lock panics.
StaticInitPoisonState ==
    init = POISONED =>
        /\ osInitCalls = 1
        /\ osState # "live"
        /\ OwningThread = NoThread
        /\ ~refExists
        /\ \A t \in Threads : ~Holds(t) /\ pc[t] \notin {"body", "init", "store"}
StaticInitPoison ==
    /\ []StaticInitPoisonState
    /\ [][init = POISONED => init' = POISONED]_vars
    /\ \A t \in Threads :
         (pc[t] = "catcher" \/ (init = POISONED /\ op[t] # NoCall)) ~>
             (init = POISONED /\ status[t] = "panic")

\* C6 witness: the winner's OS init has failed, and the other thread, which
\* was inside the Static Lock too, has panicked as well.
StaticInitPoisonWitness ==
    /\ init = POISONED
    /\ calls = 2
    /\ \A t \in Threads : status[t] = "panic" /\ Over(t)

\* C7. A panicking holder still releases: a thread that is over holds no
\* guard and does not own the lock; a panicking thread's guards go one OS
\* level at a time until it owns nothing; and a thread blocked in enter on a
\* panicking holder gets the lock, unless a third thread gets it first.
BlockedInEnter(t) == pc[t] = "body" /\ op[t] = "enter" /\ ~cs_can_enter(t)
PanicReleases ==
    /\ [](\A t \in Threads : Over(t) => ~Holds(t) /\ OwningThread # t)
    /\ [][\A t \in Threads :
            status[t] = "panic" /\ guards'[t] # guards[t] =>
                /\ guards'[t] = guards[t] - 1
                /\ RecursionCount' = RecursionCount - 1]_vars
    /\ \A t \in Threads :
         (status[t] = "panic" /\ Holds(t)) ~> (~Holds(t) /\ OwningThread # t)
    /\ \A u \in Threads :
         (BlockedInEnter(u) /\ status[OwningThread] = "panic") ~>
             \/ Entered(u)
             \/ OwningThread \in Threads \ {u} /\ status[OwningThread] # "panic"

\* C7 witness: a thread that panicked holding two nested guards has dropped
\* the inner one (the lock is poisoned already) and is about to drop the
\* outer one, while another thread is blocked in enter.
PanicReleasesWitness ==
    \E t, u \in Threads :
        /\ t # u
        /\ status[t] = "panic" /\ pc[t] = "drop"
        /\ guards[t] = 1
        /\ poison
        /\ BlockedInEnter(u)

\* C11 (the claim as stated). Poison under the lock: a thread that can read
\* the poison flag (it has a guard) owns the OS lock, and every step that
\* writes the flag, the clears of the explicit init paths of the Static Lock
\* included, is taken by the thread that owns the OS lock.
PoisonWrite(t) ==
    \/ EnteredCritical_clear_poison(t)
    \/ EnteredCritical_drop_poison(t)
    \/ pc[t] = "idle" /\ pc'[t] = "uinit"
PoisonUnderLock ==
    [][\A t \in Threads :
          /\ guards[t] >= 1 => OwningThread = t
          /\ PoisonWrite(t) => OwningThread = t]_vars

\* C12. Poison frame: a clear_poison step leaves the flag false; the flag goes
\* from false to true only in the poison write of a panicking thread's guard
\* drop, so enter, try_enter, leave, set_spin_count and non-panicking drops
\* keep it false; and a release by a thread that is not panicking leaves the
\* flag as it was.
PoisonFrame ==
    [][/\ (\E t \in Threads : EnteredCritical_clear_poison(t)) => ~poison'
       /\ (~poison /\ poison') =>
              \E t \in Threads : status[t] = "panic" /\ EnteredCritical_drop_poison(t)
       /\ \A t \in Threads :
              status[t] # "panic" /\ guards'[t] < guards[t] => poison' = poison]_vars

\* C12 witness: a thread has panicked and is over, the flag is true, and a
\* thread whose closure returned is dropping its guard without panicking.
PoisonFrameWitness ==
    \E t, u \in Threads :
        /\ status[t] = "panic" /\ Over(t)
        /\ status[u] = "exit" /\ pc[u] = "leave" /\ guards[u] = 1
        /\ poison

\* C13. Poison is recorded, not enforced: on a poisoned lock two threads
\* never hold guards at once; a thread inside enter is blocked exactly when
\* another thread owns the OS lock; a thread at the acquire step of enter or
\* try_enter does not panic there; and a thread that acquires gets one more
\* guard and one more OS level of a lock that was free or its own, the flag
\* staying true.
PoisonNotEnforced ==
    /\ [](poison => \A t, u \in Threads : Holds(t) /\ Holds(u) => t = u)
    /\ [](\A t \in Threads :
            poison /\ pc[t] = "body" /\ op[t] = "enter" =>
                (ENABLED <<Step(t)>>_vars <=> OwningThread \in {NoThread, t}))
    /\ [][\A t \in Threads :
            poison /\ pc[t] = "body" /\ op[t] \in {"enter", "try_enter"} =>
                status'[t] = status[t]]_vars
    /\ [][\A t \in Threads :
            poison /\ guards'[t] > guards[t] =>
                /\ poison'
                /\ status'[t] = "run"
                /\ guards'[t] = guards[t] + 1
                /\ OwningThread \in {NoThread, t}
                /\ OwningThread' = t
                /\ RecursionCount' = RecursionCount + 1]_vars

\* C13 witness: a thread panicked holding the lock and is over; the other
\* thread has since entered the poisoned lock, and entered it again.
PoisonNotEnforcedWitness ==
    \E t, u \in Threads :
        /\ t # u
        /\ status[t] = "panic" /\ Over(t)
        /\ poison
        /\ status[u] = "run" /\ guards[u] = 2
        /\ OwningThread = u /\ RecursionCount = 2

\* What enter, try_enter and set_spin_count(n) by thread t do to the lock:
\* owner, depth, spin count, poison flag and the guard returned.
EnterEffect(t) ==
    /\ OwningThread \in {NoThread, t}
    /\ OwningThread' = t
    /\ RecursionCount' = RecursionCount + 1
    /\ guards' = [guards EXCEPT ![t] = @ + 1]
    /\ UNCHANGED <<SpinCount, poison>>
TryEnterEffect(t) ==
    IF OwningThread \in Threads \ {t}
    THEN UNCHANGED <<OwningThread, RecursionCount, SpinCount, poison, guards>>
    ELSE EnterEffect(t)
SpinEffect(t, n) ==
    /\ SpinCount' = n
    /\ UNCHANGED <<OwningThread, RecursionCount, poison, guards>>

\* C14. Reference equivalence: an Init reference exists only on an INITIALIZED
\* Static Lock; there the initialisation check of the Static Lock's functions
\* falls through without a wait, a panic or a change; the steps of enter,
\* try_enter and set_spin_count through a reference and through the Static
\* Lock itself have the same effect on owner, depth, spin count, poison and
\* guards and the same result; a thread inside enter is blocked exactly when
\* another thread owns the lock, whichever way it came; and guards got either
\* way exclude each other.
RefEquivalence ==
    /\ [](refExists => init = INITIALIZED /\ osState = "live")
    /\ [](refExists => \A t, u \in Threads : Holds(t) /\ Holds(u) => t = u)
    /\ [](\A t \in Threads :
            refExists /\ pc[t] = "body" /\ op[t] = "enter" =>
                (ENABLED <<Step(t)>>_vars <=> OwningThread \in {NoThread, t}))
    /\ [][\A t \in Threads :
            refExists /\ pc[t] = "idle" /\ op'[t] # NoCall /\ via'[t] = "static" =>
                /\ pc'[t] = "body"
                /\ UNCHANGED <<osVars, lockVars, status, guards>>]_vars
    /\ [][\A t \in Threads :
            refExists =>
                /\ AfterInitOnce(t, "enter") /\ CriticalStatic_enter(t) => EnterEffect(t)
                /\ CriticalStaticRef_enter(t) /\ pc'[t] = "idle" => EnterEffect(t)
                /\ CriticalStaticRef_enter(t) /\ pc'[t] # "idle" =>
                       /\ OwningThread \in Threads \ {t}
                       /\ UNCHANGED <<osVars, lockVars, status, guards>>
                /\ AfterInitOnce(t, "try_enter") /\ CriticalStatic_try_enter(t) =>
                       TryEnterEffect(t)
                /\ CriticalStaticRef_try_enter(t) => TryEnterEffect(t)
                /\ AfterInitOnce(t, "set_spin_count") /\ CriticalStatic_set_spin_count(t) =>
                       SpinEffect(t, arg[t])
                /\ CriticalStaticRef_set_spin_count(t) =>
                       \E n \in SpinValues : SpinEffect(t, n)]_vars

\* C14 witness: one thread owns the Static Lock and another one, which called
\* enter on a copy of the Init reference, is blocked in the OS enter.
RefEquivalenceWitness ==
    \E t, u \in Threads :
        /\ t # u
        /\ refExists
        /\ guards[u] = 1 /\ OwningThread = u
        /\ pc[t] = "body" /\ op[t] = "enter" /\ via[t] = "ref"

\* C15. Init references are sound: while an Init reference exists the Static
\* Lock is INITIALIZED and its OS object has been initialised, once; a
\* reference comes into being only in the return of a get_ref that has seen
\* INITIALIZED; a get_ref that finds POISONED leaves its spin loop by a panic;
\* and every OS call made through a reference is made on a live OS object.
InitRefSound ==
    /\ [](refExists => init = INITIALIZED /\ osState = "live" /\ osInitCalls = 1)
    /\ [](\A t \in Threads :
            AfterInitOnce(t, "get_ref") => init = INITIALIZED /\ osState = "live")
    /\ [][~refExists /\ refExists' =>
            \E t \in Threads :
                /\ AfterInitOnce(t, "get_ref")
                /\ init = INITIALIZED
                /\ pc'[t] = "idle" /\ status'[t] = "run"]_vars
    /\ [][\A t \in Threads :
            op[t] = "get_ref" /\ pc[t] = "spin" /\ init = POISONED /\ pc'[t] # "spin" =>
                status'[t] = "panic" /\ ~refExists']_vars
    /\ [][\A t \in Threads :
            \/ CriticalStaticRef_enter(t)
            \/ CriticalStaticRef_try_enter(t)
            \/ CriticalStaticRef_set_spin_count(t)
            => osState = "live" /\ init = INITIALIZED]_vars

\* C15 witness: a get_ref has returned a reference, a thread holds a guard,
\* and another get_ref, past init_once, is about to return one more copy.
InitRefSoundWitness ==
    \E t, u \in Threads :
        /\ t # u
        /\ refExists
        /\ guards[u] = 1
        /\ AfterInitOnce(t, "get_ref")

\* C16. Equality is identity: two handles are equal exactly when they come
\* from the same new() or with_spin_count(), directly or through any chain of
\* clones, whatever the spin count and the poison flag of their locks; so a
\* handle equals itself and its clones, and equality is symmetric and
\* transitive.
HandleIdentity ==
    /\ \A c, d \in Live : PartialEq_eq(c, d) <=> origin[c] = origin[d]
    /\ \A c \in Live : PartialEq_eq(c, c)
    /\ \A c, d \in Live : PartialEq_eq(c, d) => PartialEq_eq(d, c)
    /\ \A c, d, e \in Live : PartialEq_eq(c, d) /\ PartialEq_eq(d, e) => PartialEq_eq(c, e)

\* C16 witness: two clones of one lock and a handle of a separately made lock
\* whose contents are the same, at an address that an earlier lock had.
HandleIdentityWitness ==
    \E c, d, e \in Live :
        /\ c # d /\ PartialEq_eq(c, d)
        /\ ~PartialEq_eq(c, e)
        /\ heap[inner[c]] = heap[inner[e]]
        /\ serial = 3

\* C17. The init word is a monotone state machine: under the safe and the
\* unsafe functions alike it only goes UNINITIALIZED -> INITIALIZING ->
\* INITIALIZED or INITIALIZING -> POISONED, so INITIALIZED and POISONED are
\* never left; at most one thread is between its winning compare-and-swap and
\* its final store; and the word is INITIALIZING exactly while that thread is
\* there.
InitStateMachine ==
    /\ [](Cardinality(Winners) <= 1)
    /\ [](init = INITIALIZING <=> Winners # {})
    /\ [][init' # init =>
            <<init, init'>> \in {<<UNINITIALIZED, INITIALIZING>>,
                                 <<INITIALIZING, INITIALIZED>>,
                                 <<INITIALIZING, POISONED>>}]_vars

\* C17 witness: the Static Lock was initialised lazily and then deleted, and
\* a thread is re-initialising it explicitly: the word is still INITIALIZED.
InitStateMachineWitness ==
    \E t \in Threads :
        /\ pc[t] = "uinit"
        /\ init = INITIALIZED
        /\ osState = "deleted"
        /\ osInitCalls = 1

\* The handles of thread t that user code can still use: a handle whose
\* Drop::drop has run is not one of them.
UsableHandles(t) == handles[t] - (IF pc[t] = "hdec" THEN 1 ELSE 0)

\* C18. No use after delete: on a Shared Lock, while any thread has a handle
\* or a live guard the OS object is not deleted; and every OS enter,
\* try_enter, leave and set_spin_count is made on a live OS object, by a
\* thread that has a handle.
NoUseAfterDelete ==
    /\ [](kind = "Shared" =>
            ((\E t \in Threads : UsableHandles(t) >= 1 \/ Holds(t)) =>
                 osState = "live" /\ osDeleteCalls = 0))
    /\ [](kind = "Shared" => \A t \in Threads : Holds(t) => UsableHandles(t) >= 1)
    /\ [][kind = "Shared" =>
            \A t \in Threads :
                \/ CriticalSection_enter(t)
                \/ CriticalSection_try_enter(t)
                \/ CriticalSection_set_spin_count(t)
                \/ EnteredCritical_set_spin_count(t)
                \/ EnteredCritical_leave(t)
                \/ EnteredCritical_drop_leave(t)
                => osState = "live" /\ UsableHandles(t) >= 1]_vars

\* C18 witness: the thread that made the Shared Lock has dropped its handle
\* and is over; the thread it gave a clone to holds a guard, on a live lock.
NoUseAfterDeleteWitness ==
    /\ kind = "Shared"
    /\ strong = 1
    /\ osState = "live"
    /\ \E t, u \in Threads :
         /\ t # u
         /\ Over(t) /\ handles[t] = 0
         /\ handles[u] = 1 /\ Holds(u)

\* C19 (the claim as stated). Forced re-initialisation: a thread inside
\* unsafe CriticalStatic::init_with_spin_count(n) never gets to the OS init of
\* init_once (its own OS init is the only one of the call) and does not find
\* the state POISONED in the spin loop (the call returns); and when it is
\* about to return the reference the OS object is live, its spin count is n
\* and the poison flag is false.
ForcedReinit ==
    \A t \in Threads :
        op[t] = "init_with_spin_count" /\ via[t] = "static" =>
            /\ pc[t] \notin {"init", "store"}
            /\ ~(pc[t] = "spin" /\ init = POISONED)
            /\ pc[t] = "body" => osState = "live" /\ SpinCount = arg[t] /\ ~poison

\* C20 (the claim as stated). No double initialisation: the winner of
\* init_once never runs the OS init on an OS object that is initialised
\* already.
NoDoubleInit == \A t \in Threads : pc[t] = "init" => osState # "live"

====
